---------------------------- MODULE Spec2Model ----------------------------
(***************************************************************************)
(* A model of the ipfs-multi-client crate: the buffered RPC operations of  *)
(* IpfsService (src/src/lib.rs), the response types and their conversions  *)
(* (src/src/responses.rs) and the subscription stream built by             *)
(* pubsub_sub_stream (src/src/lib.rs:401-428).                             *)
(*                                                                         *)
(* Text is a sequence of one-character strings.  A JSON document is a     *)
(* tagged record; the bytes of a response body that are no JSON document  *)
(* at all are JBad.                                                        *)
(***************************************************************************)
EXTENDS Integers, Sequences, FiniteSets, TLC

VARIABLES
    rpc,        \* the last buffered RPC call: operation, response, result
    wire,       \* every byte unit the daemon wrote on the subscription body
    writes,     \* the number of writes the daemon made on that body
    conn,       \* the subscription's connection: "open", "closed", "error"
    taken,      \* how many units of wire reqwest has handed to the reader
    chunk,      \* IntoAsyncRead: the unread rest of the current chunk
    rstate,     \* IntoAsyncRead: "Ready", "PendingChunk" or "Eof"
    lbytes,     \* Lines: the bytes of the line being assembled
    lread,      \* Lines: the count of bytes read for that line
    lbuf,       \* Lines: the String buffer a failed read leaves behind
    line_stream, \* the items line_stream has yielded, in order
    pc,         \* where the consuming task is inside poll_next
    aborted,    \* AbortHandle: the shared aborted flag
    abortpc,    \* the aborting task: "idle", "set" (flag stored), "done"
    abwaker,    \* Abortable: a waker is registered in the AtomicWaker
    netwaker,   \* reqwest body: the reader's waker is registered
    woken,      \* the consuming task has been woken
    sub,        \* the topic argument of the open subscription
    pubs,       \* the payloads published on the subscription's topic
    atabort,    \* where the consuming task was when abort() was called
    dag         \* a dag_put and the dag_get on its identifier, with the daemon's block

vars == <<rpc, wire, writes, conn, taken, chunk, rstate, lbytes, lread, lbuf, line_stream,
          pc, aborted, abortpc, abwaker, netwaker, woken, sub, pubs, atabort, dag>>

subvars == <<wire, writes, conn, taken, chunk, rstate, lbytes, lread, lbuf, line_stream,
             pc, aborted, abortpc, abwaker, netwaker, woken, sub, pubs, atabort, dag>>

-----------------------------------------------------------------------------
(* Sequences and numbers *)

RECURSIVE Pow(_, _)
Pow(b, n) == IF n = 0 THEN 1 ELSE b * Pow(b, n - 1)

RECURSIVE Concat(_)
Concat(ss) == IF ss = <<>> THEN <<>> ELSE Head(ss) \o Concat(Tail(ss))

Range(s) == {s[i] : i \in DOMAIN s}

Take(s, n) == SubSeq(s, 1, n)

Drop(s, n) == SubSeq(s, n + 1, Len(s))

\* The position of c in alphabet, counted from zero; -1 when it is not in it.
IndexIn(alphabet, c) ==
    IF \E i \in DOMAIN alphabet : alphabet[i] = c
    THEN (CHOOSE i \in DOMAIN alphabet : alphabet[i] = c) - 1
    ELSE -1

-----------------------------------------------------------------------------
(* JSON documents *)

JStr(s) == [t |-> "str", s |-> s]
JNum(n) == [t |-> "num", n |-> n]
JFloat(w, d) == [t |-> "float", w |-> w, d |-> d]
JNull == [t |-> "null"]
JArr(a) == [t |-> "arr", a |-> a]
JObj(o) == [t |-> "obj", o |-> o]
JBad == [t |-> "bad"]

HasKey(v, k) == v.t = "obj" /\ k \in DOMAIN v.o

-----------------------------------------------------------------------------
(* Codecs of the multibase, multihash and cid crates, as the crate calls   *)
(* them.  A result is [ok |-> TRUE, v |-> value] or [ok |-> FALSE, e |-> why]. *)

Ok(v) == [ok |-> TRUE, v |-> v]
Fail(e) == [ok |-> FALSE, e |-> e]

B64UrlAlphabet ==
    << "A","B","C","D","E","F","G","H","I","J","K","L","M","N","O","P",
       "Q","R","S","T","U","V","W","X","Y","Z","a","b","c","d","e","f",
       "g","h","i","j","k","l","m","n","o","p","q","r","s","t","u","v",
       "w","x","y","z","0","1","2","3","4","5","6","7","8","9","-","_" >>

B58BtcAlphabet ==
    << "1","2","3","4","5","6","7","8","9","A","B","C","D","E","F","G",
       "H","J","K","L","M","N","P","Q","R","S","T","U","V","W","X","Y",
       "Z","a","b","c","d","e","f","g","h","i","j","k","m","n","o","p",
       "q","r","s","t","u","v","w","x","y","z" >>

\* Unpadded URL-safe base64 of a byte sequence, as sextets.
RECURSIVE B64Sextets(_)
B64Sextets(b) ==
    IF Len(b) = 0 THEN <<>>
    ELSE IF Len(b) = 1 THEN << b[1] \div 4, (b[1] % 4) * 16 >>
    ELSE IF Len(b) = 2
         THEN << b[1] \div 4, (b[1] % 4) * 16 + b[2] \div 16, (b[2] % 16) * 4 >>
    ELSE << b[1] \div 4, (b[1] % 4) * 16 + b[2] \div 16,
            (b[2] % 16) * 4 + b[3] \div 64, b[3] % 64 >>
         \o B64Sextets(Drop(b, 3))

B64UrlEncode(b) ==
    LET x == B64Sextets(b) IN [i \in DOMAIN x |-> B64UrlAlphabet[x[i] + 1]]

\* The bytes of a sequence of sextets; trailing bits must be zero.
RECURSIVE B64Bytes(_)
B64Bytes(x) ==
    IF Len(x) = 0 THEN Ok(<<>>)
    ELSE IF Len(x) = 1 THEN Fail("base64: invalid length")
    ELSE IF Len(x) = 2
         THEN IF x[2] % 16 # 0 THEN Fail("base64: trailing bits")
              ELSE Ok(<< x[1] * 4 + x[2] \div 16 >>)
    ELSE IF Len(x) = 3
         THEN IF x[3] % 4 # 0 THEN Fail("base64: trailing bits")
              ELSE Ok(<< x[1] * 4 + x[2] \div 16,
                         (x[2] % 16) * 16 + x[3] \div 4 >>)
    ELSE LET rest == B64Bytes(Drop(x, 4)) IN
         IF ~rest.ok THEN rest
         ELSE Ok(<< x[1] * 4 + x[2] \div 16,
                    (x[2] % 16) * 16 + x[3] \div 4,
                    (x[3] % 4) * 64 + x[4] >> \o rest.v)

B64UrlDecode(cs) ==
    IF \E i \in DOMAIN cs : IndexIn(B64UrlAlphabet, cs[i]) < 0
    THEN Fail("base64: invalid symbol")
    ELSE B64Bytes([i \in DOMAIN cs |-> IndexIn(B64UrlAlphabet, cs[i])])

RECURSIVE BytesBE(_)
BytesBE(n) == IF n = 0 THEN <<>> ELSE BytesBE(n \div 256) \o << n % 256 >>

\* The big-endian bytes of 58 * (the number b) + carry.
RECURSIVE MulAdd58(_, _)
MulAdd58(b, carry) ==
    IF b = <<>> THEN BytesBE(carry)
    ELSE LET x == b[Len(b)] * 58 + carry IN
         MulAdd58(Take(b, Len(b) - 1), x \div 256) \o << x % 256 >>

\* The big-endian bytes of the base-58 number cs.
RECURSIVE B58Number(_)
B58Number(cs) ==
    IF cs = <<>> THEN <<>>
    ELSE MulAdd58(B58Number(Take(cs, Len(cs) - 1)),
                  IndexIn(B58BtcAlphabet, cs[Len(cs)]))

RECURSIVE LeadingOnes(_)
LeadingOnes(cs) ==
    IF cs # <<>> /\ cs[1] = "1" THEN 1 + LeadingOnes(Tail(cs)) ELSE 0

\* Base::Base58Btc.decode: each leading "1" is a zero byte, the rest is a
\* big-endian number in base 58.
B58BtcDecode(cs) ==
    IF \E i \in DOMAIN cs : IndexIn(B58BtcAlphabet, cs[i]) < 0
    THEN Fail("base58: invalid symbol")
    ELSE LET z == LeadingOnes(cs) IN
         Ok([i \in 1..z |-> 0] \o B58Number(Drop(cs, z)))

\* cid::multibase::encode(Base::Base64Url, input): the code "u", then the text.
MultibaseEncode(b) == << "u" >> \o B64UrlEncode(b)

\* cid::multibase::decode(text): the first character selects the base.  The
\* bases modelled are "u" (base64url) and "z" (base58btc).
MultibaseDecode(cs) ==
    IF cs = <<>> THEN Fail("multibase: empty")
    ELSE IF cs[1] = "u" THEN B64UrlDecode(Tail(cs))
    ELSE IF cs[1] = "z" THEN B58BtcDecode(Tail(cs))
    ELSE Fail("multibase: unknown base")

\* An unsigned LEB128 varint at the head of b, in its shortest encoding: its
\* value and its length.
RECURSIVE ReadVarint(_)
ReadVarint(b) ==
    IF b = <<>> THEN Fail("varint: eof")
    ELSE IF b[1] < 128 THEN [ok |-> TRUE, v |-> b[1], n |-> 1]
    ELSE LET r == ReadVarint(Tail(b)) IN
         IF ~r.ok THEN r
         ELSE IF r.n = 1 /\ r.v = 0 THEN Fail("varint: not minimal")
         ELSE [ok |-> TRUE, v |-> (b[1] - 128) + 128 * r.v, n |-> r.n + 1]

\* Multihash::read: code, size, then size bytes of digest; what follows is
\* left in rest.
MultihashRead(b) ==
    LET c == ReadVarint(b) IN
    IF ~c.ok THEN Fail("multihash: code")
    ELSE LET b2 == Drop(b, c.n)
             s  == ReadVarint(b2) IN
         IF ~s.ok THEN Fail("multihash: size")
         ELSE IF s.v > 64 THEN Fail("multihash: invalid size")
         ELSE LET b3 == Drop(b2, s.n) IN
              IF Len(b3) < s.v THEN Fail("multihash: eof")
              ELSE [ok |-> TRUE,
                    v |-> [code |-> c.v, size |-> s.v, digest |-> Take(b3, s.v)],
                    rest |-> Drop(b3, s.v)]

\* MultihashGeneric::from_bytes: a multihash and nothing after it.
MultihashFromBytes(b) ==
    LET r == MultihashRead(b) IN
    IF ~r.ok THEN Fail(r.e)
    ELSE IF r.rest # <<>> THEN Fail("multihash: invalid size")
    ELSE Ok(r.v)

LIBP2P_KEY == 112

CidNewV1(codec, mh) == [version |-> 1, codec |-> codec, hash |-> mh]

\* Cid::try_from(bytes) for a version 1 identifier: version, codec, multihash.
CidFromBytes(b) ==
    LET ver == ReadVarint(b) IN
    IF ~ver.ok THEN Fail("cid: varint")
    ELSE LET b2 == Drop(b, ver.n)
             cod == ReadVarint(b2) IN
         IF ~cod.ok THEN Fail("cid: varint")
         ELSE IF ver.v # 1 THEN Fail("cid: invalid version")
         ELSE LET mh == MultihashRead(Drop(b2, cod.n)) IN
              IF ~mh.ok THEN Fail(mh.e) ELSE Ok(CidNewV1(cod.v, mh.v))

\* Cid::try_from(String): what follows "/ipfs/" when the text has it, at
\* least two characters, multibase text of the identifier's bytes.
CidTryFrom(cs) ==
    LET h == IF cs # <<>> /\ cs[1] = "/ipfs/" THEN Tail(cs) ELSE cs IN
    IF Len(h) < 2 THEN Fail("cid: input too short")
    ELSE LET d == MultibaseDecode(h) IN
         IF ~d.ok THEN Fail(d.e) ELSE CidFromBytes(d.v)

\* The bytes of a version 1 identifier, for the daemon's side of the wire.
CidBytes(c) ==
    << c.version, c.codec, c.hash.code, c.hash.size >> \o c.hash.digest

CidText(c) == MultibaseEncode(CidBytes(c))

RECURSIVE B58Digits(_)
B58Digits(n) ==
    IF n = 0 THEN <<>>
    ELSE B58Digits(n \div 58) \o << B58BtcAlphabet[(n % 58) + 1] >>

RECURSIVE BytesValue(_)
BytesValue(b) ==
    IF b = <<>> THEN 0 ELSE BytesValue(Take(b, Len(b) - 1)) * 256 + b[Len(b)]

RECURSIVE LeadingZeros(_)
LeadingZeros(b) ==
    IF b # <<>> /\ b[1] = 0 THEN 1 + LeadingZeros(Tail(b)) ELSE 0

\* The daemon's base58-btc text of a peer identity's multihash bytes.
B58BtcEncode(b) ==
    LET z == LeadingZeros(b) IN
    [i \in 1..z |-> "1"] \o B58Digits(BytesValue(Drop(b, z)))

MultihashBytes(mh) == << mh.code, mh.size >> \o mh.digest

-----------------------------------------------------------------------------
(* serde: the derived Deserialize of the response structs.  A schema is the *)
(* struct's fields in declaration order, under their renamed keys.          *)

Field(name, ty) == [name |-> name, ty |-> ty]

AddResponseSchema == << Field("Hash", "String") >>
PubsubSubResponseSchema == << Field("from", "String"), Field("data", "String") >>
CidStringSchema == << Field("/", "String") >>
DagPutResponseSchema == << Field("Cid", "CidString") >>
NamePublishResponseSchema == << Field("Name", "String"), Field("Value", "String") >>
NameResolveResponseSchema == << Field("Path", "String") >>
KeyPairSchema == << Field("Id", "String"), Field("Name", "String") >>
KeyListResponseSchema == << Field("Keys", "Vec<KeyPair>") >>
IdResponseSchema == << Field("ID", "String") >>
PinAddResponseSchema ==
    << Field("Pins", "Vec<String>"), Field("Progress", "Option<String>") >>
PinRmResponseSchema == << Field("Pins", "Vec<String>") >>
IPFSErrorSchema ==
    << Field("Message", "String"), Field("Code", "u64"), Field("Type", "String") >>
\* The caller's type of dag_get in the crate's own test.
TestBlockSchema == << Field("data", "String") >>

SerdeError(kind, what, at) == [kind |-> kind, what |-> what, at |-> at]

SyntaxError == SerdeError("syntax", "expected value", "document")

NoError == SerdeError("none", "", "")

Min(S) == CHOOSE x \in S : \A y \in S : x <= y

RECURSIVE FromJson(_, _, _)
RECURSIVE FieldError(_, _, _)

\* Why value v is no value of type ty, or NoError when it is one.
FieldError(ty, v, at) ==
    CASE ty = "String" ->
            IF v.t = "str" THEN NoError
            ELSE SerdeError("invalid type", "expected a string", at)
      [] ty = "u64" ->
            IF v.t = "num" /\ v.n >= 0 THEN NoError
            ELSE SerdeError("invalid type", "expected u64", at)
      [] ty = "Option<String>" ->
            IF v.t \in {"str", "null"} THEN NoError
            ELSE SerdeError("invalid type", "expected a string", at)
      [] ty = "Vec<String>" ->
            IF v.t # "arr" THEN SerdeError("invalid type", "expected a sequence", at)
            ELSE IF \E i \in DOMAIN v.a : v.a[i].t # "str"
                 THEN SerdeError("invalid type", "expected a string", at)
            ELSE NoError
      [] ty = "CidString" ->
            LET r == FromJson(CidStringSchema, "CidString", v) IN
            IF r.ok THEN NoError ELSE r.e
      [] ty = "Vec<KeyPair>" ->
            IF v.t # "arr" THEN SerdeError("invalid type", "expected a sequence", at)
            ELSE LET bad == {i \in DOMAIN v.a :
                                ~FromJson(KeyPairSchema, "KeyPair", v.a[i]).ok} IN
                 IF bad = {} THEN NoError
                 ELSE FromJson(KeyPairSchema, "KeyPair", v.a[Min(bad)]).e

\* serde_json::from_slice::<T> for a struct T: from a JSON object by key
\* (unknown keys ignored, a missing Option is None) or from a JSON array by
\* position.  Ok carries the fields' JSON values in declaration order.  The
\* error is the first ill-typed field's, else the first missing field's.
FromJson(schema, name, v) ==
    IF v.t = "bad" THEN Fail(SyntaxError)
    ELSE IF v.t = "obj" THEN
        LET bad == {i \in DOMAIN schema :
                      /\ schema[i].name \in DOMAIN v.o
                      /\ FieldError(schema[i].ty, v.o[schema[i].name],
                                    schema[i].name) # NoError}
            missing == {i \in DOMAIN schema :
                          /\ schema[i].name \notin DOMAIN v.o
                          /\ schema[i].ty # "Option<String>"}
        IN  IF bad # {}
            THEN Fail(FieldError(schema[Min(bad)].ty,
                                 v.o[schema[Min(bad)].name], schema[Min(bad)].name))
            ELSE IF missing # {}
            THEN Fail(SerdeError("missing field", schema[Min(missing)].name, name))
            ELSE Ok([i \in DOMAIN schema |->
                        IF schema[i].name \in DOMAIN v.o
                        THEN v.o[schema[i].name] ELSE JNull])
    ELSE IF v.t = "arr" THEN
        LET bad == {i \in DOMAIN schema :
                      /\ i <= Len(v.a)
                      /\ FieldError(schema[i].ty, v.a[i], schema[i].name) # NoError}
        IN  IF bad # {} /\ \A i \in 1..(Min(bad) - 1) : i <= Len(v.a)
            THEN Fail(FieldError(schema[Min(bad)].ty, v.a[Min(bad)],
                                 schema[Min(bad)].name))
            ELSE IF Len(v.a) # Len(schema)
            THEN Fail(SerdeError("invalid length", "expected struct", name))
            ELSE Ok(v.a)
    ELSE Fail(SerdeError("invalid type", "expected struct", name))

-----------------------------------------------------------------------------
(* The conversions of src/src/responses.rs *)

\* TryFrom<AddResponse> for Cid
AddResponseTryFrom(res) == CidTryFrom(res[1].s)

\* TryFrom<DagPutResponse> for Cid: the string under Cid./
DagPutResponseTryFrom(res) ==
    CidTryFrom(FromJson(CidStringSchema, "CidString", res[1]).v[1].s)

\* TryFrom<NameResolveResponse> for Cid
NameResolveResponseTryFrom(res) == CidTryFrom(res[1].s)

\* HashMap::from_iter over the entries whose Id converts, in response order:
\* a later entry replaces an earlier one of the same name.
RECURSIVE KeyListFromIter(_)
KeyListFromIter(keys) ==
    IF keys = <<>> THEN <<>>
    ELSE LET m == KeyListFromIter(Take(keys, Len(keys) - 1))
             keypair == FromJson(KeyPairSchema, "KeyPair", keys[Len(keys)]).v
             id == keypair[1].s
             name == keypair[2].s
             cid == CidTryFrom(id)
         IN  IF cid.ok
             THEN [n \in DOMAIN m \cup {name} |-> IF n = name THEN cid.v ELSE m[n]]
             ELSE m

\* A variant that collects into a Result: one bad Id fails the list.
KeyListResponseTryFrom_Strict(res) ==
    IF \E i \in DOMAIN res[1].a :
          ~CidTryFrom(FromJson(KeyPairSchema, "KeyPair", res[1].a[i]).v[1].s).ok
    THEN Fail("cid: parse")
    ELSE Ok(KeyListFromIter(res[1].a))

\* TryFrom<KeyListResponse> for KeyList: it never fails.
KeyListResponseTryFrom(res) == Ok(KeyListFromIter(res[1].a))

\* A variant that reads the identity as the text of an identifier, as
\* AddResponse's Hash is read.
IdResponseTryFrom_AsCidText(res) == CidTryFrom(res[1].s)

\* TryFrom<IdResponse> for Cid
IdResponseTryFrom(res) ==
    LET decoded == B58BtcDecode(res[1].s) IN
    IF ~decoded.ok THEN Fail(decoded.e)
    ELSE LET multihash == MultihashFromBytes(decoded.v) IN
         IF ~multihash.ok THEN Fail(multihash.e)
         ELSE Ok(CidNewV1(LIBP2P_KEY, multihash.v))

\* A variant that hands out the payload as the daemon wrote it, its
\* multibase text undecoded.
PubSubMsgTryFrom_RawData(res) ==
    LET from == res[1].s
        data == res[2].s
        decoded == B58BtcDecode(from)
    IN  IF ~decoded.ok THEN Fail(decoded.e)
        ELSE LET multihash == MultihashFromBytes(decoded.v) IN
             IF ~multihash.ok THEN Fail(multihash.e)
             ELSE Ok([from |-> CidNewV1(LIBP2P_KEY, multihash.v), data |-> data])

\* TryFrom<PubsubSubResponse> for PubSubMsg
PubSubMsgTryFrom(res) ==
    LET from == res[1].s
        data == res[2].s
        decoded == B58BtcDecode(from)
    IN  IF ~decoded.ok THEN Fail(decoded.e)
        ELSE LET multihash == MultihashFromBytes(decoded.v) IN
             IF ~multihash.ok THEN Fail(multihash.e)
             ELSE LET cid == CidNewV1(LIBP2P_KEY, multihash.v)
                      bytes == MultibaseDecode(data)
                  IN  IF ~bytes.ok THEN Fail(bytes.e)
                      ELSE Ok([from |-> cid, data |-> bytes.v])

\* The typed values the operations return without conversion.
PinAddResponseOf(res) ==
    [pins |-> [i \in DOMAIN res[1].a |-> res[1].a[i].s], progress |-> res[2]]

PinRmResponseOf(res) == [pins |-> [i \in DOMAIN res[1].a |-> res[1].a[i].s]]

NamePublishResponseOf(res) == [name |-> res[1].s, value |-> res[2].s]

TestBlockOf(res) == [data |-> res[1].s]

-----------------------------------------------------------------------------
(* Results: Result<T, Box<dyn Error>>, by the error's concrete type *)

Success(v) == [kind |-> "Ok", v |-> v]

\* IPFSError
RemoteError(e) ==
    [kind |-> "RemoteError", message |-> e[1].s, code |-> e[2].n,
     error_type |-> e[3].s]

\* serde_json::Error
DecodeError(e) == [kind |-> "DecodeError", e |-> e]

\* cid::Error
MalformedIdentifier(e) == [kind |-> "MalformedIdentifier", e |-> e]

\* reqwest::Error, and the std::io::Error the stream wraps it in
TransportError == [kind |-> "TransportError"]

\* A response the transport failed to deliver (send() or bytes() failed).
NoResponse == [t |-> "none"]

\* A variant that reports the error object's own parse as the failure.
DecodeAsIPFSError_NoRemote(bytes) ==
    LET r == FromJson(IPFSErrorSchema, "IPFSError", bytes) IN
    IF r.ok THEN DecodeError(SyntaxError) ELSE DecodeError(r.e)

\* The second arm of every operation's match: the bytes did not decode as T.
\*     Err(_) => match serde_json::from_slice::<IPFSError>(&bytes) {
\*         Ok(error) => Err(error.into()),
\*         Err(e) => Err(e.into()),
DecodeAsIPFSError(bytes) ==
    LET r == FromJson(IPFSErrorSchema, "IPFSError", bytes) IN
    IF r.ok THEN RemoteError(r.v) ELSE DecodeError(r.e)

\* Ok(res.try_into()?)
TryInto(r) == IF r.ok THEN Success(r.v) ELSE MalformedIdentifier(r.e)

-----------------------------------------------------------------------------
(* The buffered operations of IpfsService, as functions of the response *)

add(resp) ==
    IF resp.t = "none" THEN TransportError
    ELSE LET res == FromJson(AddResponseSchema, "AddResponse", resp) IN
         IF res.ok THEN TryInto(AddResponseTryFrom(res.v))
         ELSE DecodeAsIPFSError(resp)

\* The body is returned as it came.
cat(resp) == IF resp.t = "none" THEN TransportError ELSE Success(resp)

pin_add(resp) ==
    IF resp.t = "none" THEN TransportError
    ELSE LET res == FromJson(PinAddResponseSchema, "PinAddResponse", resp) IN
         IF res.ok THEN Success(PinAddResponseOf(res.v))
         ELSE DecodeAsIPFSError(resp)

pin_rm(resp) ==
    IF resp.t = "none" THEN TransportError
    ELSE LET res == FromJson(PinRmResponseSchema, "PinRmResponse", resp) IN
         IF res.ok THEN Success(PinRmResponseOf(res.v))
         ELSE DecodeAsIPFSError(resp)

dag_put(resp) ==
    IF resp.t = "none" THEN TransportError
    ELSE LET res == FromJson(DagPutResponseSchema, "DagPutResponse", resp) IN
         IF res.ok THEN TryInto(DagPutResponseTryFrom(res.v))
         ELSE DecodeAsIPFSError(resp)

dag_get(resp) ==
    IF resp.t = "none" THEN TransportError
    ELSE LET res == FromJson(TestBlockSchema, "TestBlock", resp) IN
         IF res.ok THEN Success(TestBlockOf(res.v))
         ELSE DecodeAsIPFSError(resp)

key_list(resp) ==
    IF resp.t = "none" THEN TransportError
    ELSE LET res == FromJson(KeyListResponseSchema, "KeyListResponse", resp) IN
         IF res.ok THEN TryInto(KeyListResponseTryFrom(res.v))
         ELSE DecodeAsIPFSError(resp)

name_publish(resp) ==
    IF resp.t = "none" THEN TransportError
    ELSE LET res == FromJson(NamePublishResponseSchema, "NamePublishResponse", resp) IN
         IF res.ok THEN Success(NamePublishResponseOf(res.v))
         ELSE DecodeAsIPFSError(resp)

name_resolve(resp) ==
    IF resp.t = "none" THEN TransportError
    ELSE LET res == FromJson(NameResolveResponseSchema, "NameResolveResponse", resp) IN
         IF res.ok THEN TryInto(NameResolveResponseTryFrom(res.v))
         ELSE DecodeAsIPFSError(resp)

peer_id(resp) ==
    IF resp.t = "none" THEN TransportError
    ELSE LET res == FromJson(IdResponseSchema, "IdResponse", resp) IN
         IF res.ok THEN TryInto(IdResponseTryFrom(res.v))
         ELSE DecodeAsIPFSError(resp)

\* The response is awaited and dropped unread.
pubsub_pub(resp) == IF resp.t = "none" THEN TransportError ELSE Success("unit")

-----------------------------------------------------------------------------
(* The daemon's responses the model draws from *)

MaxKeys == 2

Txt(c) == << c >>

CidA == CidNewV1(113, [code |-> 18, size |-> 2, digest |-> << 1, 2 >>])
CidB == CidNewV1(113, [code |-> 18, size |-> 2, digest |-> << 250, 9 >>])
BadCidText == << "x", "y" >>

PeerHash == [code |-> 0, size |-> 1, digest |-> << 7 >>]
PeerText == B58BtcEncode(MultihashBytes(PeerHash))
BadPeerText == << "0", "O" >>

\* The daemon's error object.
ErrorBody(message, code, type) ==
    JObj([Message |-> JStr(message), Code |-> JNum(code), Type |-> JStr(type)])

KeyPairs ==
    { JObj([Id |-> JStr(id), Name |-> JStr(name)]) :
        id \in {CidText(CidA), CidText(CidB), BadCidText},
        name \in {Txt("a"), Txt("b")} }

RECURSIVE SeqsUpTo(_, _)
SeqsUpTo(S, n) ==
    IF n = 0 THEN { <<>> }
    ELSE LET shorter == SeqsUpTo(S, n - 1) IN
         shorter \cup { Append(q, x) : q \in shorter, x \in S }

KeyListBodies == { JObj([Keys |-> JArr(ks)]) : ks \in SeqsUpTo(KeyPairs, MaxKeys) }

Bodies ==
    { JBad, JObj(<<>>), JNum(7), JNull, JArr(<<>>),
      ErrorBody(Txt("m"), 0, Txt("error")),
      ErrorBody(Txt("n"), 1, Txt("error")),
      JObj([Message |-> JStr(Txt("m")), Code |-> JNum(-1), Type |-> JStr(Txt("error"))]),
      JObj([Message |-> JStr(Txt("m")), Code |-> JStr(Txt("0")), Type |-> JStr(Txt("error"))]),
      JObj([Message |-> JStr(Txt("m")), Code |-> JNum(0)]),
      JArr(<< JStr(Txt("m")), JNum(0), JStr(Txt("error")) >>),
      JObj([Hash |-> JStr(CidText(CidA))]),
      JObj([Hash |-> JStr(BadCidText)]),
      JObj([Hash |-> JNum(1)]),
      JArr(<< JStr(CidText(CidB)) >>),
      JObj([Hash |-> JStr(CidText(CidA)), Message |-> JStr(Txt("m")),
            Code |-> JNum(0), Type |-> JStr(Txt("error"))]),
      JObj([Pins |-> JArr(<< JStr(CidText(CidA)) >>)]),
      JObj([Pins |-> JArr(<< JStr(CidText(CidA)) >>), Progress |-> JStr(Txt("p"))]),
      JObj([Pins |-> JArr(<< JStr(CidText(CidA)) >>), Progress |-> JNum(3)]),
      JObj([Pins |-> JStr(CidText(CidA))]),
      JObj([Cid |-> JObj("/" :> JStr(CidText(CidA)))]),
      JObj([Cid |-> JObj("/" :> JStr(BadCidText))]),
      JObj([Cid |-> JStr(CidText(CidA))]),
      JObj([data |-> JStr(Txt("t"))]),
      JObj([data |-> JStr(Txt("t")), Message |-> JStr(Txt("m")),
            Code |-> JNum(0), Type |-> JStr(Txt("error"))]),
      JObj([Name |-> JStr(Txt("k")), Value |-> JStr(Txt("v"))]),
      JObj([Name |-> JStr(Txt("k"))]),
      JObj([Path |-> JStr(<< "/ipfs/" >> \o CidText(CidA))]),
      JObj([Path |-> JStr(CidText(CidB))]),
      JObj([Path |-> JStr(<< "/ipfs/" >>)]),
      JObj([ID |-> JStr(PeerText)]),
      JObj([ID |-> JStr(BadPeerText)]),
      JObj([ID |-> JStr(<< "1", "1", "1" >>)]),
      JObj([Keys |-> JArr(<<>>)]),
      JObj([Keys |-> JArr(<< JObj([Id |-> JStr(CidText(CidA))]) >>)]),
      JObj([Keys |-> JArr(<< JObj([Id |-> JStr(CidText(CidA)),
                                   Name |-> JStr(Txt("a"))]) >>)]) }

Responses == Bodies \cup { NoResponse }

-----------------------------------------------------------------------------
(* The state machine of the buffered calls: one call, its response, its result *)

Call(op, resp, res) == [op |-> op, resp |-> resp, res |-> res]

RpcInit == rpc = Call("none", NoResponse, [kind |-> "none"])

SubInit ==
    /\ wire = <<>>
    /\ writes = 0
    /\ conn = "open"
    /\ taken = 0
    /\ chunk = <<>>
    /\ rstate = "PendingChunk"
    /\ lbytes = <<>>
    /\ lread = 0
    /\ lbuf = <<>>
    /\ line_stream = <<>>
    /\ pc = "unsubscribed"
    /\ aborted = FALSE
    /\ abortpc = "idle"
    /\ abwaker = FALSE
    /\ netwaker = FALSE
    /\ woken = FALSE
    /\ sub = <<>>
    /\ pubs = <<>>
    /\ atabort = "none"

\* No node has been put.
DagInit == dag = [step |-> "none"]

Init == RpcInit /\ SubInit /\ DagInit

CallAdd ==
    \E resp \in Responses :
        rpc' = Call("add", resp, add(resp)) /\ UNCHANGED subvars

CallCat ==
    \E resp \in Responses :
        rpc' = Call("cat", resp, cat(resp)) /\ UNCHANGED subvars

CallPinAdd ==
    \E resp \in Responses :
        rpc' = Call("pin_add", resp, pin_add(resp)) /\ UNCHANGED subvars

CallPinRm ==
    \E resp \in Responses :
        rpc' = Call("pin_rm", resp, pin_rm(resp)) /\ UNCHANGED subvars

CallDagPut ==
    \E resp \in Responses :
        rpc' = Call("dag_put", resp, dag_put(resp)) /\ UNCHANGED subvars

CallDagGet ==
    \E resp \in Responses :
        rpc' = Call("dag_get", resp, dag_get(resp)) /\ UNCHANGED subvars

\* key_list is also offered every list of up to MaxKeys key pairs.
CallKeyList ==
    \E resp \in Responses \cup KeyListBodies :
        rpc' = Call("key_list", resp, key_list(resp)) /\ UNCHANGED subvars

CallNamePublish ==
    \E resp \in Responses :
        rpc' = Call("name_publish", resp, name_publish(resp)) /\ UNCHANGED subvars

CallNameResolve ==
    \E resp \in Responses :
        rpc' = Call("name_resolve", resp, name_resolve(resp)) /\ UNCHANGED subvars

CallPeerId ==
    \E resp \in Responses :
        rpc' = Call("peer_id", resp, peer_id(resp)) /\ UNCHANGED subvars

CallPubsubPub ==
    \E resp \in Responses :
        rpc' = Call("pubsub_pub", resp, pubsub_pub(resp)) /\ UNCHANGED subvars

Next ==
    \/ CallAdd
    \/ CallCat
    \/ CallPinAdd
    \/ CallPinRm
    \/ CallDagPut
    \/ CallDagGet
    \/ CallKeyList
    \/ CallNamePublish
    \/ CallNameResolve
    \/ CallPeerId
    \/ CallPubsubPub

Spec == Init /\ [][Next]_vars

-----------------------------------------------------------------------------
(* JSON texts: serde_json's writer and reader, for the documents a node of  *)
(* dag_put is made of: objects of strings, numbers, null.                   *)

\* A variant that writes every character as it is.
EscapeChar_Verbatim(c) == << c >>

\* serde_json's escapes among the characters of DataChars.
EscapeChar(c) ==
    IF c = "\"" THEN << "\\", "\"" >>
    ELSE IF c = "\\" THEN << "\\", "\\" >>
    ELSE << c >>

RECURSIVE EscapeStr(_)
EscapeStr(cs) ==
    IF cs = <<>> THEN <<>> ELSE EscapeChar(Head(cs)) \o EscapeStr(Tail(cs))

Quoted(cs) == << "\"" >> \o EscapeStr(cs) \o << "\"" >>

DigitChars == << "0", "1", "2", "3", "4", "5", "6", "7", "8", "9" >>

RECURSIVE Digits(_)
Digits(n) ==
    IF n < 10 THEN << DigitChars[n + 1] >>
    ELSE Digits(n \div 10) \o << DigitChars[(n % 10) + 1] >>

\* A parse: the value read and the position after it.
Parsed(v, next) == [ok |-> TRUE, v |-> v, next |-> next]

\* The characters of a string whose opening quote is before position i.
RECURSIVE ScanString(_, _, _)
ScanString(t, i, acc) ==
    IF i > Len(t) THEN Fail("EOF while parsing a string")
    ELSE IF t[i] = "\"" THEN Parsed(acc, i + 1)
    ELSE IF t[i] = "\\"
    THEN IF i + 1 <= Len(t) /\ t[i + 1] \in {"\"", "\\", "/"}
         THEN ScanString(t, i + 2, Append(acc, t[i + 1]))
         ELSE Fail("invalid escape")
    ELSE ScanString(t, i + 1, Append(acc, t[i]))

\* The digits from position i on: their value and the position after them.
RECURSIVE ScanDigits(_, _, _)
ScanDigits(t, i, n) ==
    IF i <= Len(t) /\ IndexIn(DigitChars, t[i]) >= 0
    THEN ScanDigits(t, i + 1, 10 * n + IndexIn(DigitChars, t[i]))
    ELSE Parsed(n, i)

\* An object's key as the name of a field.
RECURSIVE KeyOf(_)
KeyOf(cs) == IF cs = <<>> THEN "" ELSE Head(cs) \o KeyOf(Tail(cs))

RECURSIVE ParseValue(_, _)
RECURSIVE ParseMembers(_, _, _)

\* The members of an object from position i on, o being those read.
ParseMembers(t, i, o) ==
    IF i > Len(t) \/ t[i] # "\"" THEN Fail("key must be a string")
    ELSE LET k == ScanString(t, i + 1, <<>>) IN
         IF ~k.ok THEN k
         ELSE IF k.next > Len(t) \/ t[k.next] # ":" THEN Fail("expected colon")
         ELSE LET v == ParseValue(t, k.next + 1) IN
              IF ~v.ok THEN v
              ELSE LET read == (KeyOf(k.v) :> v.v) @@ o IN
                   IF v.next > Len(t) THEN Fail("EOF while parsing an object")
                   ELSE IF t[v.next] = "}" THEN Parsed(JObj(read), v.next + 1)
                   ELSE IF t[v.next] = "," THEN ParseMembers(t, v.next + 1, read)
                   ELSE Fail("expected comma or brace")

ParseValue(t, i) ==
    IF i > Len(t) THEN Fail("EOF while parsing a value")
    ELSE IF t[i] = "\"" THEN
        LET r == ScanString(t, i + 1, <<>>) IN
        IF r.ok THEN Parsed(JStr(r.v), r.next) ELSE r
    ELSE IF t[i] = "n" THEN
        IF i + 3 <= Len(t) /\ SubSeq(t, i, i + 3) = << "n", "u", "l", "l" >>
        THEN Parsed(JNull, i + 4)
        ELSE Fail("expected ident")
    ELSE IF IndexIn(DigitChars, t[i]) >= 0 THEN
        LET w == ScanDigits(t, i, 0) IN
        IF w.next <= Len(t) /\ t[w.next] = "."
        THEN LET d == ScanDigits(t, w.next + 1, 0) IN
             IF d.next = w.next + 1 THEN Fail("invalid number")
             ELSE Parsed(JFloat(w.v, d.v), d.next)
        ELSE Parsed(JNum(w.v), w.next)
    ELSE IF t[i] = "{" THEN
        IF i + 1 <= Len(t) /\ t[i + 1] = "}" THEN Parsed(JObj(<<>>), i + 2)
        ELSE ParseMembers(t, i + 1, <<>>)
    ELSE Fail("expected value")

\* The document of a text: one value and nothing after it.
ParseJson(t) ==
    LET r == ParseValue(t, 1) IN
    IF r.ok /\ r.next = Len(t) + 1 THEN r.v ELSE JBad

-----------------------------------------------------------------------------
(* dag_put, the daemon's block store, dag_get *)

MaxDataLen == 3

\* Characters of a node's strings: a letter and the two serde_json escapes.
DataChars == { "a", "\"", "\\" }

\* The nodes put: the tests' TestBlock { data: String } and an f64, a
\* finite one and an infinite one.
Nodes ==
    { [ty |-> "TestBlock", data |-> cs] : cs \in SeqsUpTo(DataChars, MaxDataLen) }
        \cup { [ty |-> "f64", finite |-> TRUE, w |-> 1, d |-> 5],
               [ty |-> "f64", finite |-> FALSE, w |-> 0, d |-> 0] }

\* serde_json::to_vec(node): a struct as an object of its fields, a finite
\* f64 as its decimal text, a NaN or an infinity as null.
ToVec(node) ==
    IF node.ty = "TestBlock"
    THEN << "{" >> \o Quoted(<< "d", "a", "t", "a" >>) \o << ":" >>
             \o Quoted(node.data) \o << "}" >>
    ELSE IF node.finite THEN Digits(node.w) \o << "." >> \o Digits(node.d)
    ELSE << "n", "u", "l", "l" >>

\* The characters of a field's name.
KeyText(k) == CASE k = "data" -> << "d", "a", "t", "a" >>

\* The daemon's dag-json text of a block.
RECURSIVE WriteJson(_)
RECURSIVE WriteMembers(_, _)
WriteMembers(o, keys) ==
    IF keys = {} THEN <<>>
    ELSE LET k == CHOOSE x \in keys : TRUE IN
         Quoted(KeyText(k)) \o << ":" >> \o WriteJson(o[k])
             \o (IF keys = {k} THEN <<>> ELSE << "," >>)
             \o WriteMembers(o, keys \ {k})

WriteJson(doc) ==
    CASE doc.t = "null" -> << "n", "u", "l", "l" >>
      [] doc.t = "str" -> Quoted(doc.s)
      [] doc.t = "num" -> Digits(doc.n)
      [] doc.t = "float" -> Digits(doc.w) \o << "." >> \o Digits(doc.d)
      [] doc.t = "obj" -> << "{" >> \o WriteMembers(doc.o, DOMAIN doc.o) \o << "}" >>

\* The daemon's answer to dag/put: the identifier of the block it stored,
\* or its error for a text that is no dag-json.
DagPutBody(text, cid) ==
    IF ParseJson(text) = JBad THEN ErrorBody(Txt("m"), 0, Txt("error"))
    ELSE JObj([Cid |-> JObj("/" :> JStr(CidText(cid)))])

\* The daemon's answer to dag/get for arg: the block's dag-json.
DagGetBody(arg, cid, block) ==
    LET asked == CidTryFrom(arg) IN
    IF asked.ok /\ asked.v = cid THEN ParseJson(WriteJson(block))
    ELSE ErrorBody(Txt("n"), 0, Txt("error"))

\* dag_get::<_, f64>
dag_get_f64(resp) ==
    IF resp.t = "none" THEN TransportError
    ELSE IF resp.t = "float"
    THEN Success([ty |-> "f64", finite |-> TRUE, w |-> resp.w, d |-> resp.d])
    ELSE IF resp.t = "num"
    THEN Success([ty |-> "f64", finite |-> TRUE, w |-> resp.n, d |-> 0])
    ELSE DecodeAsIPFSError(resp)

\* dag_put(&node): the node's JSON text is sent and the answer decoded.
DagPut ==
    /\ dag.step = "none"
    /\ \E node \in Nodes, cid \in {CidA, CidB} :
          dag' = [step |-> "put", node |-> node, cid |-> cid,
                  block |-> ParseJson(ToVec(node)),
                  put |-> dag_put(DagPutBody(ToVec(node), cid))]
    /\ UNCHANGED <<rpc, wire, writes, conn, taken, chunk, rstate, lbytes, lread, lbuf,
                   line_stream, pc, aborted, abortpc, abwaker, netwaker, woken, sub,
                   pubs, atabort>>

\* dag_get(cid, None) on the identifier dag_put returned, as the node's type.
DagGet ==
    /\ dag.step = "put"
    /\ dag.put.kind = "Ok"
    /\ LET resp == DagGetBody(CidText(dag.put.v), dag.cid, dag.block) IN
       dag' = [step |-> "got", node |-> dag.node, cid |-> dag.cid,
               block |-> dag.block, put |-> dag.put,
               got |-> IF dag.node.ty = "TestBlock" THEN dag_get(resp)
                       ELSE dag_get_f64(resp)]
    /\ UNCHANGED <<rpc, wire, writes, conn, taken, chunk, rstate, lbytes, lread, lbuf,
                   line_stream, pc, aborted, abortpc, abwaker, netwaker, woken, sub,
                   pubs, atabort>>

DagNext ==
    \/ DagPut
    \/ DagGet

DagSpec == Init /\ [][DagNext]_vars

-----------------------------------------------------------------------------
(* The subscription: the daemon's side of the wire *)

MaxWrites == 2

\* A unit of the response body: a JSON document's text or a line feed.
Doc(j) == [nl |-> FALSE, j |-> j]
NL == [nl |-> TRUE, j |-> JNull]

Topics == { << 116 >>, << 111 >> }

\* The topic of the subscription.
TOPIC == << 116 >>

Payloads == { << 72, 105 >>, << 255, 0, 16, 33 >> }

OtherHash == [code |-> 0, size |-> 2, digest |-> << 1, 9 >>]
OtherText == B58BtcEncode(MultihashBytes(OtherHash))

\* The daemon's line for a message: the sender in base58-btc, the payload
\* in multibase.
MessageDoc(from, payload) ==
    JObj([from |-> JStr(from), data |-> JStr(MultibaseEncode(payload))])

\* What the daemon may write at once besides the lines of this client's own
\* publications: the text of another peer's message, a line feed, its error
\* object as a line, an empty line and another peer's message as a line.
DaemonWrites ==
    { << Doc(MessageDoc(OtherText, << 7 >>)) >>,
      << NL >>,
      << Doc(ErrorBody(Txt("m"), 0, Txt("error"))), NL >>,
      << NL, Doc(MessageDoc(OtherText, << 7 >>)), NL >> }

-----------------------------------------------------------------------------
(* pubsub_sub_stream: Abortable, into_async_read, lines, map *)

\* serde_json::from_str on a line: one document and nothing else.
JsonOfLine(line) ==
    IF Len(line) = 1 /\ ~line[1].nl THEN line[1].j ELSE JBad

\* A variant that takes every line that is no message for the daemon's
\* error, without decoding it.
MapLine_AlwaysRemote(line) ==
    LET response == FromJson(PubsubSubResponseSchema, "PubsubSubResponse",
                             JsonOfLine(line)) IN
    IF response.ok THEN TryInto(PubSubMsgTryFrom(response.v))
    ELSE [kind |-> "RemoteError", message |-> <<>>, code |-> 0, error_type |-> <<>>]

\* The closure of line_stream.map on Ok(line).
MapLine(line) ==
    LET response == FromJson(PubsubSubResponseSchema, "PubsubSubResponse",
                             JsonOfLine(line)) IN
    IF response.ok THEN TryInto(PubSubMsgTryFrom(response.v))
    ELSE LET ipfs_error == FromJson(IPFSErrorSchema, "IPFSError", JsonOfLine(line)) IN
         IF ipfs_error.ok THEN RemoteError(ipfs_error.v)
         ELSE DecodeError(ipfs_error.e)

\* The closure of line_stream.map on Err(e).
MapErr == TransportError

\* Lines' items: Ok(line), Err(e).
OkLine(line) == [ok |-> TRUE, line |-> line]
ErrLine == [ok |-> FALSE, line |-> <<>>]

\* The stream pubsub_sub_stream returns: line_stream.map(closure).
items ==
    [i \in DOMAIN line_stream |->
        IF line_stream[i].ok THEN MapLine(line_stream[i].line) ELSE MapErr]

\* Lines::poll_next: the line without its line feed.
StripNL(text) ==
    IF text # <<>> /\ text[Len(text)].nl THEN Take(text, Len(text) - 1) ELSE text

\* A variant that reads a chunk up to its last line feed.
FirstNL_Last(c) ==
    IF \E i \in DOMAIN c : c[i].nl
    THEN CHOOSE i \in DOMAIN c : c[i].nl /\ \A j \in (i + 1)..Len(c) : ~c[j].nl
    ELSE 0

\* The position of the first line feed of a chunk, 0 when it has none.
FirstNL(c) ==
    IF \E i \in DOMAIN c : c[i].nl
    THEN CHOOSE i \in DOMAIN c : c[i].nl /\ \A j \in 1..(i - 1) : ~c[j].nl
    ELSE 0

WakeTask(registered) == IF registered THEN TRUE ELSE woken

\* pubsub_sub_response, then pubsub_sub_stream on the response.
Subscribe ==
    /\ pc = "unsubscribed"
    /\ sub' = MultibaseEncode(TOPIC)
    /\ pc' = "idle"
    /\ UNCHANGED <<rpc, dag, wire, writes, conn, taken, chunk, rstate, lbytes, lread, lbuf,
                   line_stream, aborted, abortpc, abwaker, netwaker, woken, pubs, atabort>>

AtLineStart == wire = <<>> \/ wire[Len(wire)].nl

\* pubsub_pub, and the daemon writing the message's line on the body of a
\* subscription to the same topic, once the line it was writing is ended.
Publish ==
    \E topic \in Topics, data \in Payloads :
        IF /\ pc \notin {"unsubscribed", "ended"}
           /\ sub = MultibaseEncode(topic)
           /\ conn = "open"
           /\ writes < MaxWrites
           /\ AtLineStart
        THEN /\ wire' = wire \o << Doc(MessageDoc(PeerText, data)), NL >>
             /\ writes' = writes + 1
             /\ pubs' = Append(pubs, data)
             /\ woken' = WakeTask(netwaker)
             /\ netwaker' = FALSE
             /\ UNCHANGED <<rpc, dag, conn, taken, chunk, rstate, lbytes, lread, lbuf,
                            line_stream, pc, aborted, abortpc, abwaker, sub, atabort>>
        ELSE UNCHANGED vars

\* The daemon writes on the body.
DaemonWrite ==
    /\ pc \notin {"unsubscribed", "ended"}
    /\ conn = "open"
    /\ writes < MaxWrites
    /\ \E w \in DaemonWrites : wire' = wire \o w
    /\ writes' = writes + 1
    /\ woken' = WakeTask(netwaker)
    /\ netwaker' = FALSE
    /\ UNCHANGED <<rpc, dag, conn, taken, chunk, rstate, lbytes, lread, lbuf, line_stream,
                   pc, aborted, abortpc, abwaker, sub, pubs, atabort>>

\* The daemon ends the body.
DaemonClose ==
    /\ pc \notin {"unsubscribed", "ended"}
    /\ conn = "open"
    /\ conn' = "closed"
    /\ woken' = WakeTask(netwaker)
    /\ netwaker' = FALSE
    /\ UNCHANGED <<rpc, dag, wire, writes, taken, chunk, rstate, lbytes, lread, lbuf, line_stream,
                   pc, aborted, abortpc, abwaker, sub, pubs, atabort>>

\* The connection breaks.
TransportFail ==
    /\ pc \notin {"unsubscribed", "ended"}
    /\ conn = "open"
    /\ conn' = "error"
    /\ woken' = WakeTask(netwaker)
    /\ netwaker' = FALSE
    /\ UNCHANGED <<rpc, dag, wire, writes, taken, chunk, rstate, lbytes, lread, lbuf, line_stream,
                   pc, aborted, abortpc, abwaker, sub, pubs, atabort>>

\* The task is at the stream's poll_next: about to call it ("idle", between
\* two polls) or inside it at the reader ("run").
AtLines == pc \in {"idle", "run"}

\* Lines over a chunk IntoAsyncRead holds: up to the first line feed the
\* chunk's bytes join the line, and a complete line is mapped and yielded.
ReadReady ==
    /\ AtLines
    /\ rstate = "Ready"
    /\ LET i == FirstNL(chunk)
           used == IF i > 0 THEN i ELSE Len(chunk)
           bytes == lbytes \o Take(chunk, used)
       IN  /\ chunk' = Drop(chunk, used)
           /\ rstate' = IF used = Len(chunk) THEN "PendingChunk" ELSE "Ready"
           /\ pc' = IF i > 0 THEN "idle" ELSE "run"
           /\ IF i > 0
              THEN /\ line_stream' = Append(line_stream, OkLine(StripNL(bytes)))
                   /\ lbytes' = lbuf
                   /\ lbuf' = <<>>
                   /\ lread' = 0
              ELSE /\ lbytes' = bytes
                   /\ lread' = lread + used
                   /\ UNCHANGED <<line_stream, lbuf>>
    /\ UNCHANGED <<rpc, dag, wire, writes, conn, taken, aborted, abortpc, abwaker,
                   netwaker, woken, sub, pubs, atabort>>

\* Lines at the end of the reader: what was read of a line is yielded as a
\* line; with nothing read and nothing buffered the stream ends.
ReadEof ==
    /\ AtLines
    /\ rstate = "Eof"
    /\ lread' = 0
    /\ lbytes' = lbuf
    /\ lbuf' = <<>>
    /\ IF lread = 0 /\ lbytes = <<>>
       THEN pc' = "ended" /\ UNCHANGED line_stream
       ELSE line_stream' = Append(line_stream, OkLine(StripNL(lbytes))) /\ pc' = "idle"
    /\ UNCHANGED <<rpc, dag, wire, writes, conn, taken, chunk, rstate, aborted, abortpc,
                   abwaker, netwaker, woken, sub, pubs, atabort>>

\* Abortable::poll_next, first check of the flag: an aborted stream ends.
PollAbortable ==
    /\ AtLines
    /\ rstate = "PendingChunk"
    /\ IF aborted
       THEN rstate' = "Eof" /\ pc' = "run"
       ELSE pc' = "inner" /\ UNCHANGED rstate
    /\ UNCHANGED <<rpc, dag, wire, writes, conn, taken, chunk, lbytes, lread, lbuf, line_stream,
                   aborted, abortpc, abwaker, netwaker, woken, sub, pubs, atabort>>

\* read_line_internal on a failed read of a line that has bytes already,
\* by the futures-util the build resolves and its profile: the count of the
\* line's bytes is kept ("read kept"), a debug assertion on it fails, or
\* the count is reset ("read reset").
ReadLineBuilds == { "read kept", "debug assertions", "read reset" }

\* Abortable polls response.bytes_stream(): the bytes received since the
\* last chunk as one chunk, the end of the body, the transport's error, or
\* Pending; on Pending the body keeps the task's waker and Abortable
\* registers it for abort().  The error is yielded as Lines' item, with the
\* line's bytes left in Lines as the build has it, or the task panics.
PollBody ==
    /\ pc = "inner"
    /\ IF taken < Len(wire)
       THEN /\ chunk' = SubSeq(wire, taken + 1, Len(wire))
            /\ taken' = Len(wire)
            /\ rstate' = "Ready"
            /\ pc' = "run"
            /\ UNCHANGED <<lbytes, lread, lbuf, line_stream, netwaker, abwaker>>
       ELSE IF conn = "closed"
       THEN /\ rstate' = "Eof"
            /\ pc' = "run"
            /\ UNCHANGED <<taken, chunk, lbytes, lread, lbuf, line_stream, netwaker, abwaker>>
       ELSE IF conn = "error"
       THEN \E build \in ReadLineBuilds :
              IF build = "debug assertions" /\ lread # 0
              THEN /\ pc' = "panicked"
                   /\ UNCHANGED <<taken, chunk, rstate, lbytes, lread, lbuf,
                                  line_stream, netwaker, abwaker>>
              ELSE /\ rstate' = "Eof"
                   /\ pc' = "idle"
                   /\ line_stream' = Append(line_stream, ErrLine)
                   /\ lbuf' = lbytes
                   /\ lbytes' = lbuf
                   /\ lread' = IF build = "read reset" THEN 0 ELSE lread
                   /\ UNCHANGED <<taken, chunk, netwaker, abwaker>>
       ELSE /\ netwaker' = TRUE
            /\ abwaker' = TRUE
            /\ pc' = "recheck"
            /\ UNCHANGED <<taken, chunk, rstate, lbytes, lread, lbuf, line_stream>>
    /\ UNCHANGED <<rpc, dag, wire, writes, conn, aborted, abortpc, woken, sub, pubs,
                   atabort>>

\* A variant without the second check: the flag is read before the
\* registration only.
AbortedAfterRegister_Unchecked == FALSE

\* Abortable's second check of the flag, after the registration.
AbortedAfterRegister == aborted

Recheck ==
    /\ pc = "recheck"
    /\ IF AbortedAfterRegister
       THEN rstate' = "Eof" /\ pc' = "run"
       ELSE pc' = "parked" /\ UNCHANGED rstate
    /\ UNCHANGED <<rpc, dag, wire, writes, conn, taken, chunk, lbytes, lread, lbuf, line_stream,
                   aborted, abortpc, abwaker, netwaker, woken, sub, pubs, atabort>>

\* The executor polls the woken task again.
Wake ==
    /\ pc = "parked"
    /\ woken
    /\ woken' = FALSE
    /\ pc' = "run"
    /\ UNCHANGED <<rpc, dag, wire, writes, conn, taken, chunk, rstate, lbytes, lread, lbuf,
                   line_stream, aborted, abortpc, abwaker, netwaker, sub, pubs, atabort>>

\* AbortHandle::abort, first half: the flag is stored.
Abort ==
    /\ pc # "unsubscribed"
    /\ abortpc = "idle"
    /\ aborted' = TRUE
    /\ abortpc' = "set"
    /\ atabort' = IF pc \in {"idle", "parked", "ended"} THEN pc ELSE "polling"
    /\ UNCHANGED <<rpc, dag, wire, writes, conn, taken, chunk, rstate, lbytes, lread, lbuf,
                   line_stream, pc, abwaker, netwaker, woken, sub, pubs>>

\* AbortHandle::abort, second half: the registered waker is woken.
AbortWake ==
    /\ abortpc = "set"
    /\ abortpc' = "done"
    /\ woken' = WakeTask(abwaker)
    /\ abwaker' = FALSE
    /\ UNCHANGED <<rpc, dag, wire, writes, conn, taken, chunk, rstate, lbytes, lread, lbuf,
                   line_stream, pc, aborted, netwaker, sub, pubs, atabort>>

SubNext ==
    \/ Subscribe
    \/ Publish
    \/ DaemonWrite
    \/ DaemonClose
    \/ TransportFail
    \/ ReadReady
    \/ ReadEof
    \/ PollAbortable
    \/ PollBody
    \/ Recheck
    \/ Wake
    \/ Abort
    \/ AbortWake

SubSpec == Init /\ [][SubNext]_vars

\* A step of the task that consumes the stream.
Consume ==
    \/ ReadReady
    \/ ReadEof
    \/ PollAbortable
    \/ PollBody
    \/ Recheck
    \/ Wake

\* The consumer polls the stream for its next item as long as it has not
\* ended, the executor polls a woken task, and a call of abort() returns.
\* The daemon and the publishers owe nothing.
FairSubSpec == SubSpec /\ WF_vars(Consume) /\ WF_vars(AbortWake)

-----------------------------------------------------------------------------
(* One daemon's identity, read by peer_id() and by a subscription *)

MaxIdLen == 3

\* Characters of identity texts: base58-btc digits and one that is none.
IdChars == { "1", "5", "Y", "z", "0" }

\* The texts a daemon may give as its identity.
PeerTexts == SeqsUpTo(IdChars, MaxIdLen)

IdBody(s) == JObj([ID |-> JStr(s)])

\* peer_id() on the daemon's answer {"ID": s}.
AskPeerId ==
    /\ rpc.op = "none"
    /\ \E s \in PeerTexts : rpc' = Call("peer_id", IdBody(s), peer_id(IdBody(s)))
    /\ UNCHANGED subvars

\* The daemon writes the line of a message it publishes itself: its from
\* is the identity it answered peer_id() with.
PeerLine ==
    /\ rpc.op = "peer_id"
    /\ pc \notin {"unsubscribed", "ended"}
    /\ conn = "open"
    /\ wire = <<>>
    /\ wire' = << Doc(MessageDoc(rpc.resp.o.ID.s, << 7 >>)), NL >>
    /\ writes' = writes + 1
    /\ woken' = WakeTask(netwaker)
    /\ netwaker' = FALSE
    /\ UNCHANGED <<rpc, dag, conn, taken, chunk, rstate, lbytes, lread, lbuf, line_stream,
                   pc, aborted, abortpc, abwaker, sub, pubs, atabort>>

PeerNext ==
    \/ AskPeerId
    \/ Subscribe
    \/ PeerLine
    \/ ReadReady
    \/ PollAbortable
    \/ PollBody
    \/ Recheck
    \/ Wake

PeerSpec == Init /\ [][PeerNext]_vars

-----------------------------------------------------------------------------
(* Properties of the buffered calls *)

TypedOps ==
    {"add", "pin_add", "pin_rm", "dag_put", "dag_get", "key_list",
     "name_publish", "name_resolve", "peer_id"}

\* The success shape T of a typed operation.
TypeOf(op) ==
    CASE op = "add" -> [schema |-> AddResponseSchema, name |-> "AddResponse"]
      [] op = "pin_add" -> [schema |-> PinAddResponseSchema, name |-> "PinAddResponse"]
      [] op = "pin_rm" -> [schema |-> PinRmResponseSchema, name |-> "PinRmResponse"]
      [] op = "dag_put" -> [schema |-> DagPutResponseSchema, name |-> "DagPutResponse"]
      [] op = "dag_get" -> [schema |-> TestBlockSchema, name |-> "TestBlock"]
      [] op = "key_list" -> [schema |-> KeyListResponseSchema, name |-> "KeyListResponse"]
      [] op = "name_publish" ->
            [schema |-> NamePublishResponseSchema, name |-> "NamePublishResponse"]
      [] op = "name_resolve" ->
            [schema |-> NameResolveResponseSchema, name |-> "NameResolveResponse"]
      [] op = "peer_id" -> [schema |-> IdResponseSchema, name |-> "IdResponse"]

AsT(op, body) == FromJson(TypeOf(op).schema, TypeOf(op).name, body)

AsError(body) == FromJson(IPFSErrorSchema, "IPFSError", body)

Answered == rpc.op # "none" /\ rpc.resp.t # "none"

\* C1: a typed operation whose response body does not parse as its success
\* shape but parses as the daemon error shape fails with RemoteError carrying
\* that message, code and type, never with DecodeError.
C1_ErrorShapeGivesRemoteError ==
    (/\ Answered
     /\ rpc.op \in TypedOps
     /\ ~AsT(rpc.op, rpc.resp).ok
     /\ AsError(rpc.resp).ok)
    => /\ rpc.res.kind = "RemoteError"
       /\ rpc.res.message = AsError(rpc.resp).v[1].s
       /\ rpc.res.code = AsError(rpc.resp).v[2].n
       /\ rpc.res.error_type = AsError(rpc.resp).v[3].s

C1_Witness ==
    /\ rpc.op = "name_resolve"
    /\ rpc.resp = ErrorBody(Txt("n"), 1, Txt("error"))
    /\ rpc.res.kind = "RemoteError"
    /\ rpc.res.code = 1

\* C2: a typed operation whose response body parses neither as its success
\* shape nor as the daemon error shape fails with a DecodeError that carries
\* the parse failure of the attempt to decode it as the success shape.
C2_DecodeErrorCarriesFirstFailure ==
    (/\ Answered
     /\ rpc.op \in TypedOps
     /\ ~AsT(rpc.op, rpc.resp).ok
     /\ ~AsError(rpc.resp).ok)
    => /\ rpc.res.kind = "DecodeError"
       /\ rpc.res.e = AsT(rpc.op, rpc.resp).e

\* The daemon's answer to a request it rejects: exactly the error object.
IsDaemonError(body) ==
    /\ body.t = "obj"
    /\ DOMAIN body.o = {"Message", "Code", "Type"}
    /\ AsError(body).ok

\* C3: every operation, cat and pubsub_pub included, returns RemoteError
\* whenever the daemon answers with its error object.
C3_EveryOperationReportsRemoteError ==
    (Answered /\ IsDaemonError(rpc.resp)) => rpc.res.kind = "RemoteError"

\* The entries of a key-list response whose Id converts, as <<name, cid>>.
KeyPairOf(e) == FromJson(KeyPairSchema, "KeyPair", e).v

Decodable(keys) ==
    {i \in DOMAIN keys : CidTryFrom(KeyPairOf(keys[i])[1].s).ok}

KeysOf(body) == AsT("key_list", body).v[1].a

\* C9 as stated: the mapping holds name -> identifier for exactly the
\* response entries whose Id converts.
C9_MapHoldsEveryDecodableEntry ==
    (Answered /\ rpc.op = "key_list" /\ AsT("key_list", rpc.resp).ok)
    => /\ rpc.res.kind = "Ok"
       /\ LET keys == KeysOf(rpc.resp) IN
          /\ \A i \in Decodable(keys) :
                /\ KeyPairOf(keys[i])[2].s \in DOMAIN rpc.res.v
                /\ rpc.res.v[KeyPairOf(keys[i])[2].s]
                       = CidTryFrom(KeyPairOf(keys[i])[1].s).v
          /\ \A n \in DOMAIN rpc.res.v :
                \E i \in Decodable(keys) : KeyPairOf(keys[i])[2].s = n

\* C9 amended: the mapping's names are exactly the names of the entries
\* whose Id converts, and each name maps to the identifier of the last such
\* entry of that name; an entry whose Id does not convert fails nothing.
C9_MapHoldsLastDecodableEntryPerName ==
    (Answered /\ rpc.op = "key_list" /\ AsT("key_list", rpc.resp).ok)
    => /\ rpc.res.kind = "Ok"
       /\ LET keys == KeysOf(rpc.resp)
              named(n) == {i \in Decodable(keys) : KeyPairOf(keys[i])[2].s = n}
              last(n) == CHOOSE i \in named(n) : \A j \in named(n) : j <= i
          IN  /\ DOMAIN rpc.res.v
                   = {KeyPairOf(keys[i])[2].s : i \in Decodable(keys)}
              /\ \A n \in DOMAIN rpc.res.v :
                    rpc.res.v[n] = CidTryFrom(KeyPairOf(keys[last(n)])[1].s).v

C9_Witness ==
    /\ rpc.op = "key_list"
    /\ rpc.resp = JObj([Keys |-> JArr(<<
           JObj([Id |-> JStr(BadCidText), Name |-> JStr(Txt("a"))]),
           JObj([Id |-> JStr(CidText(CidB)), Name |-> JStr(Txt("b"))]) >>)])
    /\ rpc.res.kind = "Ok"
    /\ DOMAIN rpc.res.v = {Txt("b")}
    /\ rpc.res.v[Txt("b")] = CidB


-----------------------------------------------------------------------------
(* The subscription stream's properties *)

\* The complete lines of a text, each without its line feed, in order.
RECURSIVE SplitLines(_, _)
SplitLines(w, line) ==
    IF w = <<>> THEN <<>>
    ELSE IF Head(w).nl THEN << line >> \o SplitLines(Tail(w), <<>>)
    ELSE SplitLines(Tail(w), Append(line, Head(w)))

LinesOf(w) == SplitLines(w, <<>>)

\* What the reader has handed to Lines of the bytes received.
Consumed == Take(wire, taken - Len(chunk))

ParsesAsMessage(line) ==
    FromJson(PubsubSubResponseSchema, "PubsubSubResponse", JsonOfLine(line)).ok

ParsesAsError(line) ==
    FromJson(IPFSErrorSchema, "IPFSError", JsonOfLine(line)).ok

\* A line that gives a message: the message shape, with a sender and a
\* payload that decode.
WellFormed(line) ==
    /\ ParsesAsMessage(line)
    /\ PubSubMsgTryFrom(FromJson(PubsubSubResponseSchema, "PubsubSubResponse",
                                 JsonOfLine(line)).v).ok

Malformed(line) == ~ParsesAsMessage(line) /\ ~ParsesAsError(line)

Kinds == [i \in DOMAIN items |-> items[i].kind]

\* C4: a RemoteError item is terminal, no item follows it in the sequence.
C4_RemoteErrorItemIsLast ==
    \A i \in DOMAIN items : items[i].kind = "RemoteError" => i = Len(items)

\* C5: when the lines read so far are well-formed lines around one
\* malformed line, the items are one message per well-formed line, in
\* place, and a DecodeError exactly at the malformed line's place; the
\* stream has not ended.
C5_MalformedLineYieldsOneDecodeError ==
    LET done == LinesOf(Consumed) IN
    \A k \in DOMAIN done :
        ( /\ rstate # "Eof"
          /\ Malformed(done[k])
          /\ \A i \in DOMAIN done \ {k} : WellFormed(done[i]) )
        => /\ Len(items) = Len(done)
           /\ pc # "ended"
           /\ items[k].kind = "DecodeError"
           /\ \A i \in DOMAIN done \ {k} : items[i].kind = "Ok"

\* One message, a DecodeError for the malformed line, one more message.
C5_Witness ==
    /\ Kinds = << "Ok", "DecodeError", "Ok" >>
    /\ Len(LinesOf(Consumed)) = 3
    /\ Malformed(LinesOf(Consumed)[2])
    /\ rstate # "Eof"

\* C6: after abort() was called with no poll of the stream in progress, the
\* stream yields no further item.
C6_NoItemAfterAbort ==
    [][(abortpc = "done" /\ atabort \in {"idle", "parked"}) => line_stream' = line_stream]_vars

\* C7: a stream whose handle was triggered ends, whatever the task was
\* doing when abort() was called and whether or not the daemon writes again;
\* it never stays suspended.  (The one other way out is the task's panic on
\* a transport error inside a line, under debug assertions.)
C7_AbortedStreamEnds == aborted ~> pc \in {"ended", "panicked"}

\* abort() was called on a task suspended for the next chunk, the daemon
\* wrote nothing since, and the stream has ended.
C7_Witness ==
    /\ atabort = "parked"
    /\ abortpc = "done"
    /\ pc = "ended"
    /\ conn = "open"
    /\ taken = Len(wire)

\* C8: the items are the complete lines read, one item a line, in the
\* lines' order; an item beyond them comes only at the reader's end.
C8_OneItemPerLineInOrder ==
    LET done == LinesOf(Consumed) IN
    /\ Len(items) >= Len(done)
    /\ \A i \in DOMAIN done : items[i] = MapLine(done[i])
    /\ Len(items) > Len(done) => rstate = "Eof"

\* Three lines received in one chunk, of which the second is read, and
\* lines of different results.
C8_Witness ==
    /\ Len(LinesOf(wire)) = 3
    /\ taken = Len(wire)
    /\ Len(items) = 2
    /\ items[1] # items[2]
    /\ Len(LinesOf(chunk)) = 1
    /\ rstate = "Ready"

\* The messages of this client's own daemon among the items.
IsOwn(item) ==
    item.kind = "Ok" /\ item.v.from = CidNewV1(LIBP2P_KEY, PeerHash)

\* C10: the messages the subscription yields for the payloads published on
\* its topic carry those payloads, byte for byte and in order, one message a
\* publication: never more, and all of them once the body is read.
C10_PublishedPayloadsComeBack ==
    LET own == SelectSeq(items, IsOwn) IN
    /\ Len(own) <= Len(pubs)
    /\ \A i \in DOMAIN own : own[i].v.data = pubs[i]
    /\ Consumed = wire => Len(own) = Len(pubs)

\* Two different payloads published and both messages yielded.
C10_Witness ==
    /\ Len(pubs) = 2
    /\ pubs[1] # pubs[2]
    /\ Len(SelectSeq(items, IsOwn)) = 2
    /\ Consumed = wire


-----------------------------------------------------------------------------
(* The peer identity's properties *)

\* The text is base58-btc and its bytes are one multihash.
ValidPeerText(s) ==
    /\ B58BtcDecode(s).ok
    /\ MultihashFromBytes(B58BtcDecode(s).v).ok

\* C11: for a valid identity text s, peer_id() on {"ID": s} and the stream
\* on a line whose from is s give the same identifier: version 1, codec
\* 0x70, and the multihash s is the base58-btc text of.
C11_SamePeerIdentityEverywhere ==
    (rpc.op = "peer_id" /\ ValidPeerText(rpc.resp.o.ID.s)) =>
        LET s == rpc.resp.o.ID.s
            cid == [version |-> 1, codec |-> 112,
                    hash |-> MultihashFromBytes(B58BtcDecode(s).v).v]
        IN  /\ rpc.res = Success(cid)
            /\ B58BtcEncode(MultihashBytes(rpc.res.v.hash)) = s
            /\ \A i \in DOMAIN items :
                   /\ items[i].kind = "Ok"
                   /\ items[i].v.from = rpc.res.v

\* peer_id() has given the identifier of the test's daemon and the stream a
\* message of that sender.
C11_Witness ==
    /\ rpc.op = "peer_id"
    /\ rpc.resp = IdBody(PeerText)
    /\ rpc.res.kind = "Ok"
    /\ Len(items) = 1
    /\ items[1].kind = "Ok"
    /\ items[1].v.from = rpc.res.v


\* C13: once the stream has seen the body's end or its error (and the
\* error's item is yielded), it yields nothing more, and nothing after its
\* own end: no item is built from a line the daemon did not finish.
C13_NothingAfterCloseOrError ==
    [][((rstate = "Eof" /\ ~aborted) \/ pc = "ended") => line_stream' = line_stream]_vars

-----------------------------------------------------------------------------
(* The structured round trip's properties *)

\* The value dag_get gives for an equal node.
SameNode(node) ==
    IF node.ty = "TestBlock" THEN Success([data |-> node.data]) ELSE Success(node)

=============================================================================
